---- MODULE Spec2Model ----
(***************************************************************************)
(* Model of the PromoOpcion -> Shopify synchronisation:                    *)
(*   SyncManager.run_full_sync          (src/sync_manager.py)              *)
(*   ShopifyClient.*                    (src/shopify_client.py)            *)
(*   PromoOptionClient.get_all_products (src/promooption_client.py)        *)
(*                                                                         *)
(* Money.  Supplier prices ('precio') and destination prices are amounts   *)
(* with two decimals and are held as integer cents.  The unrounded result  *)
(* of base_price * 0.77 / 0.60 is held exactly, in sixtieths of a cent     *)
(* (77 * cents).  f"{x:.2f}" rounds to the nearest cent; at an exact half  *)
(* cent the binary double decides, and for every input below 5.10 it       *)
(* rounds up, which is what Format2 does.                                  *)
(***************************************************************************)
EXTENDS Integers, Sequences, FiniteSets, TLC

\* ------------------------------------------------------------------ bounds
MaxProducts == 2      \* products in the supplier catalog
MaxChildren == 2      \* 'hijos' of one supplier product
MaxRuns     == 2      \* successive calls of run_full_sync
MaxFailures == 1      \* failing destination requests, over all runs
MaxChanges  == 1      \* status changes at the supplier between runs
MaxBase     == 150    \* largest base price, in cents, of the pricing check

VARIABLES
  catalog,              \* what PromoOptionClient.get_all_products returns now
  dest,                 \* the Shopify store: a set of variants
  nextId,               \* next id Shopify hands out
  pc,                   \* "idle" | "loop" | "finally"
  run,                  \* number of run_full_sync calls started
  product_limit,        \* argument of run_full_sync: <<>> is None, <<k>> is k
  products_to_process,  \* local of run_full_sync
  i,                    \* 1-based position of the for loop
  calls,                \* destination calls issued by the current run
  step,                 \* what the last loop iteration saw and did
  hist                  \* facts about this run and the previous one

vars == <<catalog, dest, nextId, pc, run, product_limit, products_to_process,
          i, calls, step, hist>>

\* ------------------------------------------------------------- data model
SkuOf(p, c) == (p - 1) * MaxChildren + c

\* a SKU of the store that no supplier product has
OrphanSku == MaxProducts * MaxChildren + 1

Abs(x) == IF x < 0 THEN -x ELSE x

Min(a, b) == IF a < b THEN a ELSE b

Range(s) == {s[k] : k \in 1..Len(s)}

NumPrecio(b)  == [kind |-> "num", cents |-> b]
MissingPrecio == [kind |-> "missing", cents |-> 0]
TextPrecio    == [kind |-> "text", cents |-> 0]

Hijo(s, pr, st) == [skuHijo |-> s, precio |-> pr, estatus |-> st]

Product(p, hs) == [skuPadre |-> p, hijos |-> hs]

Variant(id, pid, s, pr) == [id |-> id, product_id |-> pid, sku |-> s, price |-> pr]

\* One destination call as the run issued it.  Unused fields are 0 / <<>>.
Call(op, s, pid, vid, pr, vs, ok) ==
  [op |-> op, sku |-> s, product_id |-> pid, variant_id |-> vid, price |-> pr,
   variants |-> vs, ok |-> ok]

RECURSIVE SeqById(_)
\* The elements of a set of variants, by increasing id.
SeqById(S) ==
  IF S = {} THEN <<>>
  ELSE LET v == CHOOSE x \in S : \A y \in S : x.id <= y.id
       IN <<v>> \o SeqById(S \ {v})

\* ------------------------------------------------------- pricing (floats)
\* float(hijo.get('precio', 0)): a missing key reads as 0, text or None raises.
ParseFloat(precio) ==
  [ok |-> precio.kind # "text",
   cents |-> IF precio.kind = "num" THEN precio.cents ELSE 0]

\* Variant of Format2: the amount is cut to cents, not rounded.
Format2_truncated(x60) == x60 \div 60

\* f"{x:.2f}" of an amount held in sixtieths of a cent, as cents.
Format2(x60) == (x60 + 30) \div 60

\* create_product: final_price of one hijo, in sixtieths of a cent.
final_price(hijo) ==
  LET base_price == ParseFloat(hijo.precio)
  IN IF base_price.ok THEN base_price.cents * 77 ELSE 0

\* run_full_sync: new_price of one active supplier variant, same unit.
new_price(supplier_variant) ==
  LET base_price == ParseFloat(supplier_variant.precio)
  IN IF base_price.ok THEN base_price.cents * 77 ELSE 0

\* Variant of price_differs: any difference counts, no tolerance.
price_differs_exact(price, np60) == 60 * price # np60

\* abs(float(shopify_variant.price) - new_price) > 0.01
price_differs(price, np60) == Abs(60 * price - np60) > 60

\* ------------------------------------------------------------ run_full_sync
\* if product_limit: all_products[:product_limit] else all_products
Truncate(all_products, limit) ==
  IF limit # <<>> /\ limit[1] # 0
  THEN SubSeq(all_products, 1, Min(limit[1], Len(all_products)))
  ELSE all_products

\* Variant of IsActive: the status is not looked at.
IsActive_any(h) == h.estatus \in {"1", "0"}

\* h.get('estatus') == '1'
IsActive(h) == h.estatus = "1"

\* supplier_variants_active, in dict (insertion) order.  SKUs of a catalog are
\* unique, so the dict has one entry per active hijo.
supplier_variants_active(product_data) == SelectSeq(product_data.hijos, IsActive)

first_sku(product_data) == supplier_variants_active(product_data)[1].skuHijo

\* Variant of supplier_skus: the SKUs of all hijos, inactive ones too.
supplier_skus_all(product_data) ==
  {h.skuHijo : h \in Range(product_data.hijos)}

\* supplier_skus = set(supplier_variants_active.keys())
supplier_skus(product_data) ==
  {h.skuHijo : h \in Range(supplier_variants_active(product_data))}

\* find_product_variant_by_sku: productVariants(first: 1, query: sku) returns
\* one of the variants that carry the SKU.
find_product_variant_by_sku(sku) == {v \in dest : v.sku = sku}

\* get_variants_for_product: product.variants, or [] when the request fails.
get_variants_for_product(pid, ok) ==
  IF ok THEN {v \in dest : v.product_id = pid} ELSE {}

\* shopify_variants_by_sku = {v.sku: v for v in shopify_variants}: the last
\* variant of a SKU wins (variants come in id order).
shopify_variants_by_sku(shopify_variants) ==
  [s \in {v.sku : v \in shopify_variants} |->
     CHOOSE v \in shopify_variants :
       v.sku = s /\ \A w \in shopify_variants : w.sku = s => w.id <= v.id]

\* The active supplier variants whose price update is requested, in order.
NeedsUpdate(by_sku, h) ==
  /\ h.skuHijo \in DOMAIN by_sku
  /\ price_differs(by_sku[h.skuHijo].price, new_price(h))

RECURSIVE update_calls(_, _, _)
update_calls(hs, by_sku, failing) ==
  IF hs = <<>> THEN <<>>
  ELSE LET h == Head(hs)
           rest == update_calls(Tail(hs), by_sku, failing)
       IN IF NeedsUpdate(by_sku, h)
          THEN <<Call("update", h.skuHijo, by_sku[h.skuHijo].product_id,
                      by_sku[h.skuHijo].id, Format2(new_price(h)), <<>>,
                      by_sku[h.skuHijo].id \notin failing)>> \o rest
          ELSE rest

\* skus_to_delete = shopify_skus - supplier_skus, as the variants to delete.
variants_to_delete(by_sku, product_data) ==
  {by_sku[s] : s \in (DOMAIN by_sku) \ supplier_skus(product_data)}

\* Variant of delete_calls: the first failing delete ends the loop.
delete_calls_abort(by_sku, product_data, failing) ==
  LET vs == SeqById(variants_to_delete(by_sku, product_data))
      upto == IF \E k \in 1..Len(vs) : vs[k].id \in failing
              THEN CHOOSE k \in 1..Len(vs) :
                     /\ vs[k].id \in failing
                     /\ \A j \in 1..(k - 1) : vs[j].id \notin failing
              ELSE Len(vs)
  IN [k \in 1..upto |->
        Call("delete", vs[k].sku, vs[k].product_id, vs[k].id, 0, <<>>,
             vs[k].id \notin failing)]

\* for sku in skus_to_delete: delete_product_variant(product_id, id).  The
\* order of a Python set is not specified; the calls are listed by id.
delete_calls(by_sku, product_data, failing) ==
  LET vs == SeqById(variants_to_delete(by_sku, product_data))
  IN [k \in 1..Len(vs) |->
        Call("delete", vs[k].sku, vs[k].product_id, vs[k].id, 0, <<>>,
             vs[k].id \notin failing)]

\* The store after the calls of one iteration: update_variant_price saves the
\* formatted price, delete_product_variant removes the variant, a failed call
\* changes nothing.
ApplyCalls(d, cs) ==
  LET done == {cs[k] : k \in {j \in 1..Len(cs) : cs[j].ok}}
      deleted == {c.variant_id : c \in {x \in done : x.op = "delete"}}
      upd == {c \in done : c.op = "update"}
  IN {IF \E c \in upd : c.variant_id = v.id
      THEN [v EXCEPT !.price = (CHOOSE c \in upd : c.variant_id = v.id).price]
      ELSE v : v \in {w \in d : w.id \notin deleted}}

\* create_product: one Shopify variant per hijo.
new_variants(product_data) ==
  [k \in 1..Len(product_data.hijos) |->
     [sku |-> product_data.hijos[k].skuHijo,
      price |-> Format2(final_price(product_data.hijos[k]))]]

\* A created product gets the next id, its variants the ids after it.
created(product_data, id) ==
  LET vs == new_variants(product_data)
  IN {Variant(id + k, id, vs[k].sku, vs[k].price) : k \in 1..Len(vs)}

\* ------------------------------------------------------------------ state
NoProduct == Product(0, <<>>)

NoStep ==
  [product |-> NoProduct, destBefore |-> {}, calls |-> <<>>, n |-> 0, before |-> 0]

\* One loop iteration, as it happened: the product, the store before it and
\* the destination calls it issued.
Step(product_data, cs) ==
  [product |-> product_data, destBefore |-> dest, calls |-> cs, n |-> i,
   before |-> Len(calls)]

NoHist ==
  [all_products |-> <<>>, fetchFailed |-> FALSE, lookupFailed |-> FALSE,
   failures |-> 0, spent |-> 0, processed |-> <<>>, supplierChanged |-> FALSE,
   changes |-> 0, prevClean |-> FALSE]

\* The run so far has met no failure and the supplier data it read is still
\* what the supplier serves.
CleanRun(h) ==
  ~h.fetchFailed /\ ~h.lookupFailed /\ h.failures = 0 /\ ~h.supplierChanged

\* Supplier price of a SKU in the reconciliation check: S1 100.00, S2 200.00, ...
PrecioOf(s) == NumPrecio(10000 * s)

\* Which of MaxChildren positions are taken: all, none, the first only, all
\* but the first.
Patterns ==
  {1..MaxChildren, {}, {1}, 2..MaxChildren}

\* A supplier product of the reconciliation check: no hijos at all, or
\* MaxChildren hijos of which a pattern is active (for a product after the
\* first: all, or all but the first).
ProductsOf(p) ==
  {Product(p, <<>>)} \cup
  {Product(p, [c \in 1..MaxChildren |->
                 Hijo(SkuOf(p, c), PrecioOf(SkuOf(p, c)),
                      IF c \in act THEN "1" ELSE "0")]) :
     act \in IF p = 1 THEN Patterns ELSE {1..MaxChildren, 2..MaxChildren}}

Catalogs ==
  UNION {{cat \in [1..n -> UNION {ProductsOf(p) : p \in 1..MaxProducts}] :
            \A p \in 1..n : cat[p].skuPadre = p} : n \in 0..MaxProducts}

\* Offsets, in cents, of a stored price from the formatted supplier price: the
\* same, and one cent more (within the tolerance of some prices only).
DestDeltas == {0, 1}

\* One product of the store before the first run: a pattern of the SKUs of the
\* first supplier product, with or without the orphan SKU, one variant per SKU.
InitSkuSets(orphan) ==
  {{SkuOf(1, c) : c \in pat} \cup o : pat \in Patterns, o \in orphan}

InitProduct(id, T, d) ==
  {Variant(id + s, id, s, Format2(77 * ParseFloat(PrecioOf(s)).cents) + d) : s \in T}

SecondId == OrphanSku + 2

FirstId == 2 * SecondId

\* The store before the first run of the lifecycle: empty, or one product.
InitDests ==
  {InitProduct(1, T, d) : T \in InitSkuSets({{}, {OrphanSku}}), d \in DestDeltas}

\* The store before a run, as earlier runs can have left it: a second product
\* may hold SKUs of the first one again.
InitDestsRun ==
  {InitProduct(1, T, d) \cup InitProduct(SecondId, U, d) :
     T \in InitSkuSets({{}, {OrphanSku}}), U \in InitSkuSets({{}}), d \in DestDeltas}

\* The arguments run_full_sync is called with: None, 0, ..., more than the catalog.
Limits == {<<>>} \cup {<<k>> : k \in 0..(MaxProducts + 1)}

InitRest ==
  /\ nextId = FirstId
  /\ pc = "idle"
  /\ run = 0
  /\ products_to_process = <<>>
  /\ i = 1
  /\ calls = <<>>
  /\ step = NoStep
  /\ hist = NoHist

Init ==
  /\ catalog \in Catalogs
  /\ dest \in InitDests
  /\ product_limit \in Limits
  /\ InitRest

InitRun ==
  /\ catalog \in Catalogs
  /\ dest \in InitDestsRun
  /\ product_limit \in Limits
  /\ InitRest

\* The 'precio' values of the pricing check: every amount up to MaxBase cents,
\* a missing key, and a value float() rejects.
PrecioInputs == {NumPrecio(b) : b \in 0..MaxBase} \cup {MissingPrecio, TextPrecio}

\* The hijos of the pricing check carry successive amounts, starting from the
\* drawn one.
PrecioFrom(pr, s) == IF pr.kind = "num" THEN NumPrecio(pr.cents + s - 1) ELSE pr

\* Stored prices of the pricing check: the formatted supplier price, or 5.00 more.
PriceDeltas == {0, 500}

InitPrice ==
  /\ \E pr \in PrecioInputs, act \in Patterns :
       /\ catalog = <<Product(1, [c \in 1..MaxChildren |->
                        Hijo(SkuOf(1, c), PrecioFrom(pr, SkuOf(1, c)),
                             IF c \in act THEN "1" ELSE "0")])>>
       /\ \E T \in InitSkuSets({{}, {OrphanSku}}), d \in PriceDeltas :
            dest = {Variant(1 + t, 1, t,
                            Format2(77 * ParseFloat(PrecioFrom(pr, t)).cents) + d) :
                      t \in T}
  /\ product_limit = <<>>
  /\ InitRest

\* ---------------------------------------------------------------- actions
StartHist(all_products, failed) ==
  [all_products |-> all_products, fetchFailed |-> failed, lookupFailed |-> FALSE,
   failures |-> 0, spent |-> hist.spent, processed |-> <<>>,
   supplierChanged |-> FALSE, changes |-> hist.changes,
   prevClean |-> run > 0 /\ CleanRun(hist)]

\* run_full_sync(product_limit), the catalog is fetched.
FetchOk ==
  /\ pc = "idle"
  /\ run < MaxRuns
  /\ run' = run + 1
  /\ products_to_process' = Truncate(catalog, product_limit)
  /\ i' = 1
  /\ calls' = <<>>
  /\ step' = NoStep
  /\ hist' = StartHist(catalog, FALSE)
  /\ pc' = "loop"
  /\ UNCHANGED <<catalog, dest, nextId, product_limit>>

\* run_full_sync(product_limit), get_all_products raises.
FetchFails ==
  /\ pc = "idle"
  /\ run < MaxRuns
  /\ run' = run + 1
  /\ products_to_process' = <<>>
  /\ i' = 1
  /\ calls' = <<>>
  /\ step' = NoStep
  /\ hist' = StartHist(<<>>, TRUE)
  /\ pc' = "finally"
  /\ UNCHANGED <<catalog, dest, nextId, product_limit>>

InLoop == pc = "loop" /\ i <= Len(products_to_process)

\* An iteration for a product without active variants: continue.
SkipProduct ==
  /\ InLoop
  /\ LET product_data == products_to_process[i]
     IN /\ supplier_variants_active(product_data) = <<>>
        /\ step' = Step(product_data, <<>>)
        /\ hist' = [hist EXCEPT !.processed = Append(@, product_data.skuPadre)]
  /\ i' = i + 1
  /\ UNCHANGED <<catalog, dest, nextId, pc, run, product_limit,
                 products_to_process, calls>>

\* An iteration whose SKU lookup raises: the exception leaves the loop.
LookupFails ==
  /\ InLoop
  /\ LET product_data == products_to_process[i]
     IN /\ supplier_variants_active(product_data) # <<>>
        /\ hist.spent < MaxFailures
        /\ LET cs == <<Call("find", first_sku(product_data), 0, 0, 0, <<>>, FALSE)>>
           IN /\ calls' = calls \o cs
              /\ step' = Step(product_data, cs)
        /\ hist' = [hist EXCEPT !.processed = Append(@, product_data.skuPadre),
                                !.lookupFailed = TRUE,
                                !.failures = @ + 1,
                                !.spent = @ + 1]
  /\ pc' = "finally"
  /\ UNCHANGED <<catalog, dest, nextId, run, product_limit,
                 products_to_process, i>>

\* An iteration whose probe SKU is not in the store: create_product.
CreateProduct ==
  /\ InLoop
  /\ LET product_data == products_to_process[i]
     IN /\ supplier_variants_active(product_data) # <<>>
        /\ find_product_variant_by_sku(first_sku(product_data)) = {}
        /\ \E saved \in {b \in BOOLEAN : b \/ hist.spent < MaxFailures} :
             LET cs == <<Call("find", first_sku(product_data), 0, 0, 0, <<>>, TRUE),
                         Call("create", 0, IF saved THEN nextId ELSE 0, 0, 0,
                              new_variants(product_data), saved)>>
             IN /\ calls' = calls \o cs
                /\ step' = Step(product_data, cs)
                /\ dest' = IF saved THEN dest \cup created(product_data, nextId)
                                    ELSE dest
                /\ nextId' = IF saved THEN nextId + 1 + Len(product_data.hijos)
                                      ELSE nextId
                /\ hist' = [hist EXCEPT !.processed = Append(@, product_data.skuPadre),
                                        !.failures = IF saved THEN @ ELSE @ + 1,
                                        !.spent = IF saved THEN @ ELSE @ + 1]
  /\ i' = i + 1
  /\ UNCHANGED <<catalog, pc, run, product_limit, products_to_process>>

\* An iteration whose probe SKU is in the store: price updates, then deletes.
\* Any of the requests may fail; the client turns the failure into a result.
ReconcileProduct ==
  /\ InLoop
  /\ LET product_data == products_to_process[i]
     IN /\ supplier_variants_active(product_data) # <<>>
        /\ \E existing \in find_product_variant_by_sku(first_sku(product_data)),
              fetched \in BOOLEAN :
             LET shopify_variants ==
                   get_variants_for_product(existing.product_id, fetched)
                 by_sku == shopify_variants_by_sku(shopify_variants)
                 requested ==
                   update_calls(supplier_variants_active(product_data), by_sku, {})
                   \o delete_calls(by_sku, product_data, {})
             IN \E failing \in SUBSET {c.variant_id : c \in Range(requested)} :
                  LET failed == Cardinality(failing) + (IF fetched THEN 0 ELSE 1)
                      ops == update_calls(supplier_variants_active(product_data),
                                          by_sku, failing)
                             \o delete_calls(by_sku, product_data, failing)
                      cs == <<Call("find", first_sku(product_data),
                                   existing.product_id, existing.id,
                                   existing.price, <<>>, TRUE),
                              Call("get_variants", 0, existing.product_id, 0, 0,
                                   SeqById(shopify_variants), fetched)>> \o ops
                  IN /\ hist.spent + failed <= MaxFailures
                     /\ calls' = calls \o cs
                     /\ step' = Step(product_data, cs)
                     /\ dest' = ApplyCalls(dest, ops)
                     /\ hist' = [hist EXCEPT
                          !.processed = Append(@, product_data.skuPadre),
                          !.failures = @ + failed,
                          !.spent = @ + failed]
  /\ i' = i + 1
  /\ UNCHANGED <<catalog, nextId, pc, run, product_limit, products_to_process>>

\* Variant of CloseSession: the session is closed at the end of the try
\* block, so not after an exception.
CloseSession_inTry ==
  /\ pc = "finally" \/ (pc = "loop" /\ i > Len(products_to_process))
  /\ calls' = IF pc = "finally" THEN calls
              ELSE Append(calls, Call("close", 0, 0, 0, 0, <<>>, TRUE))
  /\ pc' = "idle"
  /\ UNCHANGED <<catalog, dest, nextId, run, product_limit,
                 products_to_process, i, step, hist>>

\* finally: close_session, after the loop or after an exception.
CloseSession ==
  /\ pc = "finally" \/ (pc = "loop" /\ i > Len(products_to_process))
  /\ calls' = Append(calls, Call("close", 0, 0, 0, 0, <<>>, TRUE))
  /\ pc' = "idle"
  /\ UNCHANGED <<catalog, dest, nextId, run, product_limit,
                 products_to_process, i, step, hist>>

\* Between two runs the supplier changes the status of one variant.
SupplierChange ==
  /\ pc = "idle"
  /\ run > 0
  /\ run < MaxRuns
  /\ hist.changes < MaxChanges
  /\ \E p \in 1..Len(catalog) :
       \E c \in 1..Len(catalog[p].hijos) :
         catalog' = [catalog EXCEPT ![p].hijos[c].estatus =
                       IF @ = "1" THEN "0" ELSE "1"]
  /\ hist' = [hist EXCEPT !.supplierChanged = TRUE, !.changes = @ + 1]
  /\ UNCHANGED <<dest, nextId, pc, run, product_limit, products_to_process,
                 i, calls, step>>

Next ==
  \/ FetchOk
  \/ FetchFails
  \/ SkipProduct
  \/ LookupFails
  \/ CreateProduct
  \/ ReconcileProduct
  \/ CloseSession
  \/ SupplierChange

\* The lifecycle: runs of run_full_sync, the supplier changing in between.
Spec == Init /\ [][Next]_vars

\* One run of run_full_sync from any store.
NextRun ==
  \/ run = 0 /\ FetchOk
  \/ run = 0 /\ FetchFails
  \/ SkipProduct
  \/ LookupFails
  \/ CreateProduct
  \/ ReconcileProduct
  \/ CloseSession

SpecRun == InitRun /\ [][NextRun]_vars

\* One run of run_full_sync over the price inputs.
SpecPrice == InitPrice /\ [][NextRun]_vars

\* ================================================================= claims
\* What the specification says, in its own terms.

\* The SKUs of the active variants of a supplier product.
ActiveSkus(pd) ==
  {pd.hijos[k].skuHijo : k \in {j \in 1..Len(pd.hijos) : pd.hijos[j].estatus = "1"}}

\* The supplier variant of a SKU.
HijoOf(pd, s) == CHOOSE h \in Range(pd.hijos) : h.skuHijo = s

\* price(basePrice) = basePrice * 0.77 / 0.60 in sixtieths of a cent, 0 when
\* the base price is missing or is no number.
Policy60(precio) == IF precio.kind = "num" THEN 77 * precio.cents ELSE 0

\* An amount in sixtieths of a cent rounded to 2 decimals: the nearest cent.
Rounded(x60) == CHOOSE c \in 0..(x60 \div 60 + 1) : 60 * c - 30 <= x60 /\ x60 < 60 * c + 30

Ops(cs, op) == {k \in 1..Len(cs) : cs[k].op = op}

Finished == pc = "idle" /\ run > 0

\* The last iteration looked the probe SKU up and the lookup answered.
Probed == step.n > 0 /\ step.calls # <<>> /\ step.calls[1].op = "find" /\ step.calls[1].ok

ProbeFound == Probed /\ step.calls[1].variant_id # 0

\* The destination variants the last iteration fetched.
Fetched == Range(step.calls[2].variants)

ToDelete == {v \in Fetched : v.sku \notin ActiveSkus(step.product)}

ToUpdate ==
  {v \in Fetched :
     /\ v.sku \in ActiveSkus(step.product)
     /\ Abs(60 * v.price - Policy60(HijoOf(step.product, v.sku).precio)) > 60}

\* ---- C1
\* C1: every run calls close_session exactly once, as its last destination
\* call, on every exit path (normal end, catalog fetch raising, an exception
\* while a product is reconciled); no close_session before the run ends.
C1_CloseOnceLast ==
  /\ Finished => Ops(calls, "close") = {Len(calls)}
  /\ ~Finished => Ops(calls, "close") = {}

\* A run that an exception left while its second product was reconciled, closed.
C1_Witness ==
  Finished /\ hist.lookupFailed /\ step.n = 2 /\ Len(calls) >= 4

\* ---- C2
\* The requests of the last iteration are all there, failed or not: one update
\* per variant to update, one delete per variant to delete.
AllRequested ==
  ProbeFound =>
    /\ {step.calls[k].variant_id : k \in Ops(step.calls, "update")} = {v.id : v \in ToUpdate}
    /\ {step.calls[k].variant_id : k \in Ops(step.calls, "delete")} = {v.id : v \in ToDelete}

AllProcessed ==
  hist.processed = [k \in 1..Len(products_to_process) |-> products_to_process[k].skuPadre]

\* C2 as stated: once the catalog is fetched, no failure while a product is
\* reconciled (SKU lookup, variant fetch, create, update, delete) stops the
\* run: the remaining SKUs and all later products are still reconciled.
C2_NoFailureStopsRun ==
  /\ AllRequested
  /\ (Finished /\ ~hist.fetchFailed) => AllProcessed

\* C2 amended: a failing variant fetch, create, update or delete never stops
\* the run (the remaining SKUs of the product and every later product are
\* still reconciled); a failing SKU lookup ends the run at that product, the
\* later products are not reconciled.
C2_OnlyLookupStopsRun ==
  /\ AllRequested
  /\ (Finished /\ ~hist.fetchFailed /\ ~hist.lookupFailed) => AllProcessed
  /\ hist.lookupFailed =>
       /\ Len(hist.processed) = step.n
       /\ ~step.calls[1].ok
       /\ Ops(calls, "find") \cup Ops(calls, "get_variants") \cup Ops(calls, "create")
            \cup Ops(calls, "update") \cup Ops(calls, "delete") \subseteq 1..(step.before + 1)

\* A finished run in which a request of the first product failed, a delete of
\* the first product came after the failure, and a second product followed.
C2_Witness ==
  /\ Finished
  /\ ~hist.lookupFailed
  /\ Len(hist.processed) >= 2
  /\ \E k \in 1..Len(calls) :
       /\ ~calls[k].ok
       /\ calls[k].op \in {"update", "delete", "get_variants", "create"}
       /\ \E j \in (k + 1)..Len(calls) : calls[j].op = "find"
  /\ \E k \in 1..Len(calls) :
       /\ ~calls[k].ok
       /\ calls[k].op = "delete"
       /\ \E j \in (k + 1)..Len(calls) :
            calls[j].op = "delete" /\ calls[j].product_id = calls[k].product_id

\* ---- C3
\* C3: a run right after a run in which every request succeeded, with the
\* supplier data unchanged and every request succeeding again, issues no
\* update_variant_price and no delete_product_variant.
C3_SecondRunIdle ==
  (run >= 2 /\ hist.prevClean /\ ~hist.fetchFailed /\ hist.failures = 0) =>
    Ops(calls, "update") \cup Ops(calls, "delete") = {}

\* ---- C4
\* C4: when the probe SKU is not found, the iteration issues exactly one
\* create_product and no update or delete, and the product it creates has one
\* variant per active supplier variant and none for an inactive one.
C4_CreateActiveOnly ==
  (Probed /\ ~ProbeFound) =>
    /\ Len(step.calls) = 2
    /\ step.calls[2].op = "create"
    /\ {v.sku : v \in Range(step.calls[2].variants)} = ActiveSkus(step.product)
    /\ Len(step.calls[2].variants) = Cardinality(ActiveSkus(step.product))
    /\ step.calls[2].ok =>
         {v.sku : v \in dest \ step.destBefore} = ActiveSkus(step.product)

\* ---- C5
\* C5: when the probe SKU is found, delete_product_variant is called for
\* exactly the fetched variants of the found product whose SKU is not an active
\* supplier SKU (inactive at the supplier, or not among its hijos), once each,
\* with the variant's own product id, and never for an active SKU.
C5_DeletesNotActive ==
  ProbeFound =>
    LET dels == Ops(step.calls, "delete")
    IN /\ step.calls[2].op = "get_variants"
       /\ step.calls[2].ok =>
            Fetched = {v \in step.destBefore : v.product_id = step.calls[1].product_id}
       /\ {step.calls[k].variant_id : k \in dels} = {v.id : v \in ToDelete}
       /\ Cardinality(dels) = Cardinality(ToDelete)
       /\ \A k \in dels :
            /\ step.calls[k].sku \notin ActiveSkus(step.product)
            /\ \E v \in ToDelete :
                 v.id = step.calls[k].variant_id /\ v.product_id = step.calls[k].product_id

\* An iteration that deleted a variant that is inactive at the supplier and the
\* orphan variant, and kept the variant of an active SKU.
C5_Witness ==
  /\ ProbeFound
  /\ \E k \in Ops(step.calls, "delete") :
       step.calls[k].ok /\ step.calls[k].sku = OrphanSku
  /\ \E k \in Ops(step.calls, "delete") :
       /\ step.calls[k].ok
       /\ step.calls[k].sku \in {h.skuHijo : h \in Range(step.product.hijos)}
  /\ \E v \in dest : v.sku \in ActiveSkus(step.product)
                     /\ v.product_id = step.calls[1].product_id

\* ---- C6
\* C6: when the probe SKU is found, update_variant_price is called for a
\* fetched variant iff its SKU is an active supplier SKU and the stored price
\* is more than 0.01 away from price(basePrice); the call carries that price
\* rounded to 2 decimals; one call per variant.
C6_UpdatesIffOutOfTolerance ==
  ProbeFound =>
    LET upds == Ops(step.calls, "update")
    IN /\ {step.calls[k].variant_id : k \in upds} = {v.id : v \in ToUpdate}
       /\ Cardinality(upds) = Cardinality(ToUpdate)
       /\ \A k \in upds :
            step.calls[k].price =
              Rounded(Policy60(HijoOf(step.product, step.calls[k].sku).precio))

\* An iteration that updated one price and left alone another that differs
\* from the supplier's by less than the tolerance.
C6_Witness ==
  /\ ProbeFound
  /\ \E k \in Ops(step.calls, "update") : step.calls[k].ok
  /\ \E v \in Fetched :
       /\ v.sku \in ActiveSkus(step.product)
       /\ v.price # Rounded(Policy60(HijoOf(step.product, v.sku).precio))
       /\ v \in dest

\* ---- C7
\* C7: for a supplier product without an active variant (all inactive, or no
\* hijos) the run makes no destination call and leaves the store as it was.
C7_InactiveUntouched ==
  (step.n > 0 /\ ActiveSkus(step.product) = {}) =>
    /\ step.calls = <<>>
    /\ dest = step.destBefore
    /\ Len(calls) = step.before + (IF Finished THEN 1 ELSE 0)

\* An iteration that skipped a product whose hijos are all inactive while the
\* store holds a variant with one of its SKUs.
C7_Witness ==
  /\ step.n > 0
  /\ ActiveSkus(step.product) = {}
  /\ step.product.hijos # <<>>
  /\ \E v \in dest : v.sku \in {h.skuHijo : h \in Range(step.product.hijos)}

\* ---- C8
\* C8: with product_limit = k >= 0 the run processes exactly the first
\* min(k, n) products of the catalog, in order (k = 0: none); with no
\* product_limit, all n.
C8_FirstMinLimit ==
  (run > 0 /\ ~hist.fetchFailed) =>
    LET n == Len(hist.all_products)
        m == IF product_limit = <<>> THEN n ELSE Min(product_limit[1], n)
    IN /\ products_to_process = SubSeq(hist.all_products, 1, m)
       /\ (Finished /\ ~hist.lookupFailed) =>
            hist.processed = [k \in 1..m |-> hist.all_products[k].skuPadre]

\* ---- C9
\* The prices sent by the last iteration, each with the supplier price it
\* comes from: the variants of a create_product and the update_variant_price calls.
Sent ==
  {[precio |-> HijoOf(step.product, v.sku).precio, price |-> v.price] :
     v \in UNION {Range(step.calls[k].variants) : k \in Ops(step.calls, "create")}}
  \cup
  {[precio |-> HijoOf(step.product, step.calls[k].sku).precio,
    price |-> step.calls[k].price] : k \in Ops(step.calls, "update")}

C10_SkuUnique ==
  \A v, w \in dest : v.sku = w.sku => v.id = w.id

\* ---- C11
\* C11: after a run in which every request succeeded, every active SKU of every
\* processed supplier product with an active variant has a variant in the store
\* whose price is within 0.01 of price(basePrice), also a SKU that became
\* active in a product the store already holds.
C11_Converged ==
  (Finished /\ ~hist.fetchFailed /\ ~hist.lookupFailed /\ hist.failures = 0) =>
    \A k \in 1..Len(products_to_process) :
      \A s \in ActiveSkus(products_to_process[k]) :
        \E v \in dest :
          /\ v.sku = s
          /\ Abs(60 * v.price - Policy60(HijoOf(products_to_process[k], s).precio)) <= 60

====
